---- MODULE Spec2Model ----
(***************************************************************************)
(* Route construction of src/nn.py: decode_greedy (the fixed-horizon       *)
(* decode loop with its forbidden-node mask, visited flags and capacity     *)
(* bookkeeping), the masking of the PointerDecoder logits, and get_cost.    *)
(*                                                                         *)
(* Every array of decode_greedy is indexed by the batch row through        *)
(* jnp.arange(bs) and the one reduction (.all(axis=-1)) is per row, so the  *)
(* rows do not interact: the model follows one row of the batch.           *)
(*                                                                         *)
(* Demands and capacities are fixed-point: the capacity 1.0 is Unit demand  *)
(* units.  The encoder and the decoder weights are arbitrary: the raw       *)
(* logits of a step are any vector of finite values of LogitValues, and     *)
(* NegInf stands for -inf.  log_probs and the rng stream take no part in    *)
(* the route bookkeeping and are not carried.  Arithmetic on the grid is    *)
(* exact: the rounding of float32 subtraction is not modelled.              *)
(***************************************************************************)
EXTENDS Integers, Sequences, FiniteSets, TLC

\* Largest node count (depot included) of an instance.
MaxN == 3
\* Resolution of demands: the vehicle capacity 1.0 is Unit demand units.
Unit == 2
\* Resolution of distances: a length 1.0 is CostScale cost units.
CostScale == 10

\* Demands range over 0..MaxDemand: one value lies above the capacity.
MaxDemand == Unit + 1

\* Finite raw logits of the decoder: two values let any node be the argmax.
LogitValues == {1, 2}

\* Coordinate values of a node, in each of the two dimensions.
CoordValues == {0, 1}

\* -inf of the masked logits (below every raw logit).
NegInf == 0

VARIABLES
    seq_len,         \* coords.shape[1]: node count N of the instance
    demands,         \* demands[i], node 0 is the depot
    deterministic,   \* static argument of decode_greedy
    idx,             \* loop index of fori_loop(1, 2 * seq_len, ...)
    sequences,       \* the route, length 2 * seq_len
    visited,         \* visited flag per node
    capacities,      \* remaining capacity
    next_node_mask,  \* the mask built by the last decode_iteration
    pc,              \* "decode" while the loop runs, "cost", then "done"
    costs            \* <<>> until get_costs has run, then <<cost>>

vars == <<seq_len, demands, deterministic, idx, sequences, visited,
          capacities, next_node_mask, pc, costs>>

Nodes == 0..(seq_len - 1)

\* Out-of-range gather indices are clamped by jnp indexing.
Clamp(i) == IF i > seq_len - 1 THEN seq_len - 1 ELSE i

customer_mask == [i \in Nodes |-> i # 0]

AllVisited(vis) == \A i \in Nodes : vis[i] \/ ~customer_mask[i]

BaseMaskNoCapacity(vis, cap) ==
    [i \in Nodes |-> vis[i] /\ customer_mask[i]]

BaseMask(vis, cap) ==
    [i \in Nodes |-> (vis[i] /\ customer_mask[i]) \/ (demands[i] > cap)]

StayMaskNone(m, cur) == m

\* An out-of-range cur matches no node: the scatter is dropped.
StayMask(m, cur) == [i \in Nodes |-> IF i = cur THEN TRUE ELSE m[i]]

DepotMaskAlwaysLegal(m, vis) == [m EXCEPT ![0] = FALSE]

DepotMaskNoNegation(m, vis) == [m EXCEPT ![0] = AllVisited(vis) /\ m[0]]

DepotMask(m, vis) == [m EXCEPT ![0] = ~AllVisited(vis) /\ m[0]]

NextNodeMask(vis, cap, cur) ==
    DepotMask(StayMask(BaseMask(vis, cap), cur), vis)

MaskLogits(logits, m) == [i \in Nodes |-> IF m[i] THEN NegInf ELSE logits[i]]

\* jnp.argmax: the first index holding the maximum.
Argmax(l) ==
    CHOOSE i \in Nodes :
        /\ \A j \in Nodes : l[j] <= l[i]
        /\ \A j \in Nodes : j < i => l[j] < l[i]

\* Nodes of positive probability under softmax.
Support(l) == {i \in Nodes : l[i] # NegInf}

\* deterministic: argmax.  Otherwise a categorical draw, which never returns
\* a node of probability zero.  When every logit is -inf the softmax is NaN
\* and the draw is unspecified: its search of the cumulative sums compares
\* NaN with NaN at every probe, so it ends at one of its two ends, index 0
\* or the out-of-range index seq_len.
NextNodes(l) ==
    IF deterministic THEN {Argmax(l)}
    ELSE IF Support(l) # {} THEN Support(l)
    ELSE {0, seq_len}

UpdateVisitedNone(vis, nxt) == vis

UpdateVisited(vis, nxt) == [i \in Nodes |-> vis[i] \/ i = nxt]

UpdateCapacitiesNoReset(cap, nxt) == cap - demands[Clamp(nxt)]

UpdateCapacities(cap, nxt) ==
    IF nxt = 0 THEN Unit ELSE cap - demands[Clamp(nxt)]

\* Square root on the cost grid, rounded down.
ISqrt(n) == CHOOSE k \in 0..n : k * k <= n /\ (k + 1) * (k + 1) > n

DistancesSum(coords) ==
    [a \in Nodes |-> [b \in Nodes |->
        ISqrt(CostScale * CostScale *
              ( (coords[a][1] + coords[b][1]) * (coords[a][1] + coords[b][1])
              + (coords[a][2] + coords[b][2]) * (coords[a][2] + coords[b][2])))]]

Distances(coords) ==
    [a \in Nodes |-> [b \in Nodes |->
        ISqrt(CostScale * CostScale *
              ( (coords[a][1] - coords[b][1]) * (coords[a][1] - coords[b][1])
              + (coords[a][2] - coords[b][2]) * (coords[a][2] - coords[b][2])))]]

RECURSIVE SumSteps(_, _, _)
SumSteps(dist, route, t) ==
    IF t = 0 THEN 0
    ELSE SumSteps(dist, route, t - 1)
         + dist[Clamp(route[t - 1])][Clamp(route[t])]

get_cost(coords, route) ==
    SumSteps(Distances(coords), route, 2 * seq_len - 1)

Init ==
    /\ seq_len \in 1..MaxN
    /\ demands \in {d \in [0..(seq_len - 1) -> 0..MaxDemand] : d[0] = 0}
    /\ deterministic \in BOOLEAN
    /\ idx = 1
    /\ sequences = [t \in 0..(2 * seq_len - 1) |-> 0]
    /\ visited = [i \in 0..(seq_len - 1) |-> i = 0]
    /\ capacities = Unit
    /\ next_node_mask = [i \in 0..(seq_len - 1) |-> FALSE]
    /\ pc = "decode"
    /\ costs = <<>>

\* One pass of decode_iteration(idx, loop_state).
DecodeIteration ==
    /\ pc = "decode"
    /\ idx < 2 * seq_len
    /\ \E logits \in [Nodes -> LogitValues] :
         LET current_node == sequences[idx - 1]
             mask == NextNodeMask(visited, capacities, current_node)
             masked == MaskLogits(logits, mask)
         IN  \E next_nodes \in NextNodes(masked) :
               /\ next_node_mask' = mask
               /\ sequences' = [sequences EXCEPT ![idx] = next_nodes]
               /\ visited' = UpdateVisited(visited, next_nodes)
               /\ capacities' = UpdateCapacities(capacities, next_nodes)
    /\ idx' = idx + 1
    /\ UNCHANGED <<seq_len, demands, deterministic, pc, costs>>

\* fori_loop has run idx = 1 .. 2 * seq_len - 1: decode_greedy returns.
DecodeReturn ==
    /\ pc = "decode"
    /\ idx = 2 * seq_len
    /\ pc' = "cost"
    /\ UNCHANGED <<seq_len, demands, deterministic, idx, sequences, visited,
                   capacities, next_node_mask, costs>>

\* get_costs(problems[0], routes) of solve.  The coordinates reach the loop
\* only through the logits, which are arbitrary above, so they are drawn here.
GetCosts ==
    /\ pc = "cost"
    /\ \E coords \in [Nodes -> CoordValues \X CoordValues] :
         costs' = <<get_cost(coords, sequences)>>
    /\ pc' = "done"
    /\ UNCHANGED <<seq_len, demands, deterministic, idx, sequences, visited,
                   capacities, next_node_mask>>

Next == DecodeIteration \/ DecodeReturn \/ GetCosts

Spec == Init /\ [][Next]_vars

(***************************************************************************)
(* Vocabulary of the claims.                                               *)
(***************************************************************************)

\* Every customer demand fits the vehicle: demands at most 1.0.
ValidInstance == \A i \in Nodes : demands[i] <= Unit

Customers == 1..(seq_len - 1)

LastIdx == 2 * seq_len - 1

\* Every customer occurs in route[0 .. t-1]: the visited set step t starts from.
AllCustomersBefore(t) ==
    \A c \in Customers : \E k \in 0..(t - 1) : sequences[k] = c

\* Demand placed on the vehicle at route position t since its last depot entry.
RECURSIVE Load(_)
Load(t) ==
    IF sequences[t] = 0 THEN 0
    ELSE demands[Clamp(sequences[t])] + (IF t = 0 THEN 0 ELSE Load(t - 1))

OnlyDepotLegal == [i \in Nodes |-> i # 0]

\* C1: on an instance with demands at most 1.0, the demand placed between
\* two consecutive depot entries of the route (and after the last one)
\* never exceeds the capacity, and the remaining capacity carried between
\* steps is never negative and is what the open segment has left.
C1_DemandFeasible ==
    ValidInstance =>
        /\ capacities >= 0
        /\ \A t \in 0..LastIdx : Load(t) <= Unit
        /\ capacities = Unit - Load(idx - 1)

\* A finished route that filled the vehicle exactly and went back to the
\* depot for capacity while a customer was still unvisited.
C1_Witness ==
    /\ ValidInstance
    /\ pc = "done"
    /\ \E t \in 0..LastIdx : Load(t) = Unit
    /\ \E t \in 2..LastIdx :
         sequences[t] = 0 /\ sequences[t - 1] # 0 /\ ~AllCustomersBefore(t)

\* C2: on an instance with demands at most 1.0, whatever legal choices were
\* made, every customer is in the route when the 2N-1 transitions are over.
C2_AllCustomersVisited ==
    (ValidInstance /\ pc # "decode") => AllCustomersBefore(2 * seq_len)

\* The worst case: every customer visit of the largest instance is followed
\* by a depot return, and the loop still visits the last customer.
C2_Witness ==
    /\ ValidInstance
    /\ pc = "done"
    /\ seq_len = MaxN
    /\ \A t \in 1..(LastIdx - 2) : (sequences[t] = 0) <=> (t % 2 = 0)

\* C3: the mask built at every decode step leaves at least one node legal,
\* for every instance with depot demand 0 and non-negative demands.
C3_SomeNodeLegal ==
    idx > 1 => \E i \in Nodes : ~next_node_mask[i]

\* C4: the node written to route[t] differs from route[t-1] at every step.
C4_NoSelfLoop ==
    \A t \in 1..(idx - 1) : sequences[t] # sequences[t - 1]

\* C4 (amended): on an instance with demands at most 1.0, route[t] differs
\* from route[t-1] at every step taken while a customer is unvisited; the
\* only repetition is the depot following the depot once all are visited.
C4_NoSelfLoopWhileUnvisited ==
    ValidInstance =>
        \A t \in 1..(idx - 1) :
            sequences[t] = sequences[t - 1] =>
                (AllCustomersBefore(t) /\ sequences[t] = 0)

\* A finished route with customers that moved at every step until complete
\* and then stayed at the depot.
C4_Witness ==
    /\ ValidInstance
    /\ pc = "done"
    /\ seq_len > 1
    /\ sequences[LastIdx] = sequences[LastIdx - 1]
    /\ \E t \in 1..LastIdx : sequences[t] # sequences[t - 1]

\* C5: once every customer has been visited, the depot is the only node the
\* mask leaves legal (from a customer and from the depot alike), and every
\* route entry written from then on is the depot.
C5_DepotForcedWhenComplete ==
    /\ (pc = "decode" /\ idx < 2 * seq_len /\ AllVisited(visited)) =>
           NextNodeMask(visited, capacities, sequences[idx - 1]) = OnlyDepotLegal
    /\ (idx > 1 /\ AllCustomersBefore(idx - 1)) =>
           next_node_mask = OnlyDepotLegal
    /\ \A t \in 1..(idx - 1) : AllCustomersBefore(t) => sequences[t] = 0

\* The largest instance completed as early as possible: the depot is then
\* forced first from the last customer and afterwards from the depot.
C5_Witness ==
    /\ pc = "done"
    /\ seq_len = MaxN
    /\ AllCustomersBefore(seq_len)
    /\ \A t \in seq_len..LastIdx : sequences[t] = 0

\* C6: with a customer demand above 1.0 the loop runs its 2N-1 steps without
\* ever building a mask that forbids every node, the over-capacity customer
\* is never placed in the route, and the route ends cycling at the depot.
C6_OverCapacityDegenerate ==
    ~ValidInstance =>
        /\ idx > 1 => \E i \in Nodes : ~next_node_mask[i]
        /\ \A t \in 0..(idx - 1) : demands[Clamp(sequences[t])] <= Unit
        /\ pc # "decode" => sequences[LastIdx] = 0

\* C7: a depot-only instance takes its one transition with the depot legal,
\* its route is [0, 0] and the cost of that route is 0.
C7_SingleNode ==
    seq_len = 1 =>
        /\ DOMAIN sequences = 0..1
        /\ idx > 1 => (~next_node_mask[0] /\ sequences[1] = 0)
        /\ sequences[0] = 0
        /\ pc = "done" => costs = <<0>>

C7_Witness ==
    /\ seq_len = 1
    /\ pc = "done"
    /\ idx = 2
    /\ Len(costs) = 1

\* C8: at every decode step the depot is legal exactly when not all
\* customers have been visited.
C8_DepotLegalIffUnvisited ==
    idx > 1 => (~next_node_mask[0] <=> ~AllCustomersBefore(idx - 1))

\* C8 (amended): on an instance with demands at most 1.0, at every decode
\* step the depot is legal exactly when all customers have been visited or
\* the current node is not the depot.
C8_DepotLegalIffCompleteOrAway ==
    (ValidInstance /\ idx > 1) =>
        (~next_node_mask[0] <=>
            (AllCustomersBefore(idx - 1) \/ sequences[idx - 2] # 0))

\* A step taken from a customer with another customer unvisited: the depot
\* was legal, and it was chosen.
C8_Witness ==
    /\ ValidInstance
    /\ idx > 2
    /\ ~AllCustomersBefore(idx - 1)
    /\ sequences[idx - 2] # 0
    /\ ~next_node_mask[0]
    /\ sequences[idx - 1] = 0

\* C9: on an instance with demands at most 1.0 no customer occurs twice in
\* the route; the visited flags are exactly the depot and the nodes chosen
\* so far, and a visited customer is forbidden at the next step.
C9_CustomersAtMostOnce ==
    ValidInstance =>
        /\ \A s, t \in 0..LastIdx :
             (s # t /\ sequences[s] = sequences[t]) => sequences[s] = 0
        /\ \A i \in Nodes :
             visited[i] <=> (i = 0 \/ \E k \in 0..(idx - 1) : sequences[k] = i)
        /\ (pc = "decode" /\ idx < 2 * seq_len) =>
             \A i \in Customers :
                 visited[i] =>
                     NextNodeMask(visited, capacities, sequences[idx - 1])[i]

\* A finished route of the largest instance in which the depot repeats
\* between two customers.
C9_Witness ==
    /\ ValidInstance
    /\ pc = "done"
    /\ seq_len = MaxN
    /\ \E t \in 2..(LastIdx - 1) :
         sequences[t] = 0 /\ sequences[t - 1] # 0 /\ sequences[t + 1] # 0

\* C10: on an instance with demands at most 1.0 the route has length 2N and
\* starts at the depot, no customer is written past index 2N-3, and the
\* final entry is the depot.
C10_RouteCloses ==
    ValidInstance =>
        /\ DOMAIN sequences = 0..LastIdx
        /\ sequences[0] = 0
        /\ \A t \in 0..LastIdx : sequences[t] # 0 => t <= 2 * seq_len - 3
        /\ pc # "decode" => sequences[LastIdx] = 0

\* The last customer of the largest instance written at index 2N-3.
C10_Witness ==
    /\ ValidInstance
    /\ pc = "done"
    /\ seq_len = MaxN
    /\ sequences[2 * seq_len - 3] # 0
    /\ sequences[LastIdx] = 0

====
